---- MODULE Spec2Model ----
(***************************************************************************)
(* Model of broad/find_similar_preds.py: the batch pipeline that, for      *)
(* every test (query) molecule, finds the num_neighbors nearest training   *)
(* (reference) molecules under a chosen distance, builds one record per    *)
(* test molecule, sorts the records by prediction and writes them as CSV.  *)
(*                                                                         *)
(* Python indices are 0-based; the model uses 1-based sequences, so index  *)
(* i of the source is index i+1 here.  Real-valued distances are held in   *)
(* fixed point: the integer d stands for the real d / Scale.               *)
(***************************************************************************)
EXTENDS Integers, Sequences, FiniteSets, TLC

\* ------------------------------------------------------------------ bounds
MaxQuery == 2
MaxRef == 2
MaxNeighbors == 2

\* Fixed-point denominator of the distances (divisible by 1..5).
Scale == 60

\* ------------------------------------------------------- generic helpers
Min(a, b) == IF a <= b THEN a ELSE b

Max(a, b) == IF a >= b THEN a ELSE b

Range(s) == {s[i] : i \in 1..Len(s)}

SeqsUpTo(S, n) == UNION {[1..k -> S] : k \in 0..n}

RECURSIVE SeqSum(_)
SeqSum(s) == IF s = <<>> THEN 0 ELSE s[1] + SeqSum(Tail(s))

ISqrt(n) == CHOOSE r \in 0..n : r * r <= n /\ n < (r + 1) * (r + 1)

\* The sum of row[j] over the indices j of the set S.
RECURSIVE SumOver(_, _)
SumOver(row, S) ==
  IF S = {} THEN 0
  ELSE LET j == CHOOSE x \in S : TRUE IN row[j] + SumOver(row, S \ {j})

\* ------------------------------------------------- external collaborators
\* The molecules the training file may contain, the molecules the test
\* file may contain, the antibiotics files and the predictions of the model.
\* The molecules are m1, m2 and m3; no fingerprint is empty and no vector
\* has norm zero, so every distance is a number.  m2 is the one antibiotic.
TrainSmiles == {"m2", "m3"}

TestSmiles == {"m1", "m2"}

AntibioticsFiles == {{"m2"}}

Preds == {0, 1}

\* The distance_measure values a caller may pass.
DistanceMeasures == {"vec", "morgan", "euclid"}

\* morgan_fingerprint(smiles): the set of active bits of the fingerprint.
morgan_fingerprint(smiles) ==
  CASE smiles = "m1" -> {1, 2}
    [] smiles = "m2" -> {1}
    [] OTHER -> {3}

\* compute_molecule_vectors: the learned vector of a molecule.
compute_molecule_vectors(smiles) ==
  CASE smiles = "m1" -> <<1, 0>>
    [] smiles = "m2" -> <<0, 1>>
    [] OTHER -> <<3, 4>>

\* ---------------------------------------------------------- scipy / numpy
\* cdist metric='jaccard' on two fingerprints: the share of the active
\* positions on which the two disagree, 0 when neither has an active bit.
jaccard(a, b) ==
  IF a \cup b = {} THEN 0
  ELSE (Scale * (Cardinality(a \cup b) - Cardinality(a \cap b)))
         \div Cardinality(a \cup b)

Dot(u, v) == SeqSum([i \in 1..Len(u) |-> u[i] * v[i]])

\* cdist metric='cosine' on two vectors: 1 - u.v / (|u| |v|).
cosine(u, v) ==
  Scale - (Scale * Dot(u, v)) \div (ISqrt(Dot(u, u)) * ISqrt(Dot(v, v)))

\* numpy.mean of a 1-d array, kept as the exact fraction <<sum, count>>;
\* <<0, 0>> is the nan that numpy returns for an empty array.
Mean(s) == <<SeqSum(s), Len(s)>>

\* a[idx] for an index array idx.
Take_wrong(row, idx) == [i \in 1..Len(idx) |-> row[i]]

Take(row, idx) == [i \in 1..Len(idx) |-> row[idx[i]]]

\* s[:k] with Python's slice semantics (k may be negative or exceed len).
PySlice_noclamp(s, k) ==
  IF k >= 0 THEN SubSeq(s, 1, Min(k, Len(s) - 1))
  ELSE SubSeq(s, 1, Max(Len(s) + k, 0))

PySlice(s, k) ==
  IF k >= 0 THEN SubSeq(s, 1, Min(k, Len(s)))
  ELSE SubSeq(s, 1, Max(Len(s) + k, 0))

Perms(n) == {p \in [1..n -> 1..n] : \A i, j \in 1..n : i # j => p[i] # p[j]}

\* numpy.argsort(row) with the default kind ('quicksort'), which is not a
\* stable sort: any index order that sorts the row may come back.
argsort_unsorted(row) == Perms(Len(row))

argsort(row) ==
  {p \in Perms(Len(row)) :
     \A i \in 1..(Len(row) - 1) : row[p[i]] <= row[p[i + 1]]}

\* ------------------------------------------------------------------ state
VARIABLES
  test_smiles,            \* smiles of the test molecules, in file order
  train_smiles,           \* smiles of the training molecules, in file order
  antibiotics,            \* set of smiles read from antibiotics_path
  test_preds,             \* test_preds[i]: prediction for test molecule i
  distance_measure,       \* argument
  num_neighbors,          \* argument
  test_train_morgan_dist, \* <<>> until computed, then |test| x |train|
  test_train_vec_dist,    \* <<>> until computed, then |test| x |train|
  dist_matrix,            \* the matrix that drives the selection
  test_index,             \* loop variable of the neighbor loop
  neighbors,              \* list of the records built so far
  out_file,               \* the file at save_path
  raised,                 \* the exception that ended the call, or "none"
  pc                      \* position in find_similar_preds

vars == <<test_smiles, train_smiles, antibiotics, test_preds,
          distance_measure, num_neighbors, test_train_morgan_dist,
          test_train_vec_dist, dist_matrix, test_index, neighbors,
          out_file, raised, pc>>

inputs == <<test_smiles, train_smiles, antibiotics, test_preds,
            distance_measure, num_neighbors>>

train_smiles_set == Range(train_smiles)

\* len(test_data), the bound of the neighbor loop.
NumTest_short == Max(Len(test_smiles) - 1, 0)

NumTest == Len(test_smiles)

NoFile == [exists |-> FALSE, fieldnames |-> <<>>, rows |-> <<>>]

Init ==
  /\ test_smiles \in SeqsUpTo(TestSmiles, MaxQuery)
  /\ train_smiles \in SeqsUpTo(TrainSmiles, MaxRef)
  /\ antibiotics \in AntibioticsFiles
  /\ test_preds \in [1..Len(test_smiles) -> Preds]
  /\ distance_measure \in DistanceMeasures
  /\ num_neighbors \in (0 - 1)..MaxNeighbors
  /\ test_train_morgan_dist = <<>>
  /\ test_train_vec_dist = <<>>
  /\ dist_matrix = <<>>
  /\ test_index = 1
  /\ neighbors = <<>>
  /\ out_file = NoFile
  /\ raised = "none"
  /\ pc = "distances"

\* ------------------------------------------------------------- operations
\* cdist(XA, XB, metric='jaccard'): the full |XA| x |XB| matrix.
cdist_jaccard(XA, XB) ==
  [i \in 1..Len(XA) |-> [j \in 1..Len(XB) |-> jaccard(XA[i], XB[j])]]

\* cdist(XA, XB, metric='cosine'): the full |XA| x |XB| matrix.
cdist_cosine(XA, XB) ==
  [i \in 1..Len(XA) |-> [j \in 1..Len(XB) |-> cosine(XA[i], XB[j])]]

\* Lines 49-51.  np.array([]) of an empty molecule list is 1-dimensional,
\* and cdist raises ValueError unless both arguments are 2-dimensional.
ComputeDistances ==
  /\ pc = "distances"
  /\ IF Len(test_smiles) = 0 \/ Len(train_smiles) = 0
     THEN /\ raised' = "ValueError: cdist"
          /\ pc' = "error"
          /\ UNCHANGED <<test_train_morgan_dist, test_train_vec_dist>>
     ELSE /\ test_train_morgan_dist' =
               cdist_jaccard([i \in 1..Len(test_smiles) |->
                                morgan_fingerprint(test_smiles[i])],
                             [j \in 1..Len(train_smiles) |->
                                morgan_fingerprint(train_smiles[j])])
          /\ test_train_vec_dist' =
               cdist_cosine([i \in 1..Len(test_smiles) |->
                               compute_molecule_vectors(test_smiles[i])],
                            [j \in 1..Len(train_smiles) |->
                               compute_molecule_vectors(train_smiles[j])])
          /\ pc' = "measure"
          /\ UNCHANGED raised
  /\ UNCHANGED <<inputs, dist_matrix, test_index, neighbors, out_file>>

\* Lines 53-58.
SelectMeasure ==
  /\ pc = "measure"
  /\ IF distance_measure = "vec"
     THEN /\ dist_matrix' = test_train_vec_dist
          /\ pc' = "neighbors"
          /\ UNCHANGED raised
     ELSE IF distance_measure = "morgan"
     THEN /\ dist_matrix' = test_train_morgan_dist
          /\ pc' = "neighbors"
          /\ UNCHANGED raised
     ELSE /\ raised' = "ValueError: distance measure"
          /\ pc' = "error"
          /\ UNCHANGED dist_matrix
  /\ UNCHANGED <<inputs, test_train_morgan_dist, test_train_vec_dist,
                 test_index, neighbors, out_file>>

\* The keys of one record, in insertion order (lines 72-82).  The f-string
\* key 'train_smiles_3' is the pair <<"train_smiles", 3>>; keys without a
\* number carry 0.
FieldNames_dropped(k, n) ==
  <<  <<"test_smiles", 0>>, <<"in_train", 0>>, <<"test_pred", 0>>,
      <<"train_avg_vec_cosine_dist", k>>,
      <<"train_avg_morgan_jaccard_dist", k>> >>
  \o [j \in 1..(4 * n - 1) |->
        << CASE (j - 1) % 4 = 0 -> "train_smiles"
             [] (j - 1) % 4 = 1 -> "train_is_antibiotic"
             [] (j - 1) % 4 = 2 -> "train_vec_cosine_dist"
             [] OTHER -> "train_morgan_jaccard_dist",
           (j - 1) \div 4 + 1 >>]

FieldNames(k, n) ==
  <<  <<"test_smiles", 0>>, <<"in_train", 0>>, <<"test_pred", 0>>,
      <<"train_avg_vec_cosine_dist", k>>,
      <<"train_avg_morgan_jaccard_dist", k>> >>
  \o [j \in 1..(4 * n) |->
        << CASE (j - 1) % 4 = 0 -> "train_smiles"
             [] (j - 1) % 4 = 1 -> "train_is_antibiotic"
             [] (j - 1) % 4 = 2 -> "train_vec_cosine_dist"
             [] OTHER -> "train_morgan_jaccard_dist",
           (j - 1) \div 4 + 1 >>]

\* Lines 66-82: the record of test molecule ti, given its nearest_train.
\* The fields test_index and nearest_train are not columns of the record;
\* they remember which indices the record was built from.
Neighbor(ti, nearest_train) ==
  LET nearest_train_vec_dists == Take(test_train_vec_dist[ti], nearest_train)
      nearest_train_morgan_dists ==
        Take(test_train_morgan_dist[ti], nearest_train)
  IN [test_index |-> ti,
      nearest_train |-> nearest_train,
      fieldnames |-> FieldNames(num_neighbors, Len(nearest_train)),
      test_smiles |-> test_smiles[ti],
      in_train |-> test_smiles[ti] \in train_smiles_set,
      test_pred |-> test_preds[ti],
      avg_vec_cosine_dist |-> Mean(nearest_train_vec_dists),
      avg_morgan_jaccard_dist |-> Mean(nearest_train_morgan_dists),
      train_smiles |->
        [i \in 1..Len(nearest_train) |-> train_smiles[nearest_train[i]]],
      train_is_antibiotic |->
        [i \in 1..Len(nearest_train) |->
           train_smiles[nearest_train[i]] \in antibiotics],
      train_vec_cosine_dist |-> nearest_train_vec_dists,
      train_morgan_jaccard_dist |-> nearest_train_morgan_dists]

\* Lines 62-84: one iteration of the neighbor loop.
FindNeighbors ==
  /\ pc = "neighbors"
  /\ test_index <= NumTest
  /\ \E order \in argsort(dist_matrix[test_index]) :
       neighbors' =
         Append(neighbors,
                Neighbor(test_index, PySlice(order, num_neighbors)))
  /\ test_index' = test_index + 1
  /\ UNCHANGED <<inputs, test_train_morgan_dist, test_train_vec_dist,
                 dist_matrix, out_file, raised, pc>>

\* list.sort(key=test_pred, reverse=True): a stable sort, so records with
\* equal test_pred keep their order.  Insert puts x behind every record
\* whose test_pred is >= its own.
Insert_unstable(sorted, x) ==
  LET n == Cardinality({i \in 1..Len(sorted) :
                          sorted[i].test_pred > x.test_pred})
  IN SubSeq(sorted, 1, n) \o <<x>> \o SubSeq(sorted, n + 1, Len(sorted))

Insert(sorted, x) ==
  LET n == Cardinality({i \in 1..Len(sorted) :
                          sorted[i].test_pred >= x.test_pred})
  IN SubSeq(sorted, 1, n) \o <<x>> \o SubSeq(sorted, n + 1, Len(sorted))

RECURSIVE SortByPred(_)
SortByPred(s) ==
  IF s = <<>> THEN <<>>
  ELSE Insert(SortByPred(SubSeq(s, 1, Len(s) - 1)), s[Len(s)])

\* Lines 86-87, taken when the neighbor loop is exhausted.
SortNeighbors ==
  /\ pc = "neighbors"
  /\ test_index > NumTest
  /\ neighbors' = SortByPred(neighbors)
  /\ pc' = "save"
  /\ UNCHANGED <<inputs, test_train_morgan_dist, test_train_vec_dist,
                 dist_matrix, test_index, out_file, raised>>

\* csv.DictWriter.writerow raises ValueError for a row with a key that is
\* not among the fieldnames; the rows before it are already written.
Writable(fieldnames, row) == Range(row.fieldnames) \subseteq Range(fieldnames)

NumWritten(fieldnames, rows) ==
  IF \A i \in 1..Len(rows) : Writable(fieldnames, rows[i])
  THEN Len(rows)
  ELSE (CHOOSE i \in 1..Len(rows) :
          /\ ~Writable(fieldnames, rows[i])
          /\ \A j \in 1..(i - 1) : Writable(fieldnames, rows[j])) - 1

\* Lines 89-94.  open(save_path, 'w') creates the file before neighbors[0]
\* is evaluated.
Save ==
  /\ pc = "save"
  /\ IF neighbors = <<>>
     THEN /\ out_file' = [NoFile EXCEPT !.exists = TRUE]
          /\ raised' = "IndexError"
          /\ pc' = "error"
     ELSE LET fieldnames == neighbors[1].fieldnames
              n == NumWritten(fieldnames, neighbors)
          IN /\ out_file' = [exists |-> TRUE,
                             fieldnames |-> fieldnames,
                             rows |-> SubSeq(neighbors, 1, n)]
             /\ IF n = Len(neighbors)
                THEN pc' = "done" /\ UNCHANGED raised
                ELSE pc' = "error" /\ raised' = "ValueError: writerow"
  /\ UNCHANGED <<inputs, test_train_morgan_dist, test_train_vec_dist,
                 dist_matrix, test_index, neighbors>>

Next ==
  \/ ComputeDistances
  \/ SelectMeasure
  \/ FindNeighbors
  \/ SortNeighbors
  \/ Save

Spec == Init /\ [][Next]_vars

\* ----------------------------------------------------------------- claims
\* The matrix of the requested distance measure, read from the argument
\* rather than from dist_matrix.
SelectionMatrix ==
  IF distance_measure = "vec" THEN test_train_vec_dist
  ELSE test_train_morgan_dist

\* C1: the neighbor loop builds exactly one record per test molecule: while
\* the loop runs the list holds one record for each index already visited,
\* after the loop every test index has exactly one record, and the file
\* written holds exactly one row per test molecule.
C1_OneRecordPerQuery ==
  /\ pc = "neighbors" => Len(neighbors) = test_index - 1
  /\ pc \in {"save", "done"} =>
       /\ Len(neighbors) = Len(test_smiles)
       /\ \A q \in 1..Len(test_smiles) :
            Cardinality({i \in 1..Len(neighbors) :
                           neighbors[i].test_index = q}) = 1
  /\ pc = "done" =>
       /\ Len(out_file.rows) = Len(test_smiles)
       /\ \A q \in 1..Len(test_smiles) :
            Cardinality({i \in 1..Len(out_file.rows) :
                           out_file.rows[i].test_index = q}) = 1

C1_Witness ==
  /\ pc = "done"
  /\ num_neighbors > 0
  /\ Len(test_smiles) >= 2
  /\ Len(out_file.rows) = Len(test_smiles)

\* C2: after the sort the records are in descending test_pred order,
\* records with equal test_pred are in test-file order, every record still
\* holds the smiles, prediction and neighbors of one test index, and the
\* rows of the file are the sorted records.
C2_SortedStable ==
  /\ pc \in {"save", "done"} =>
       /\ \A i \in 1..(Len(neighbors) - 1) :
            neighbors[i].test_pred >= neighbors[i + 1].test_pred
       /\ \A i, j \in 1..Len(neighbors) :
            (i < j /\ neighbors[i].test_pred = neighbors[j].test_pred)
              => neighbors[i].test_index < neighbors[j].test_index
       /\ \A i \in 1..Len(neighbors) :
            LET r == neighbors[i]
                nt == r.nearest_train
            IN /\ r.test_index \in 1..Len(test_smiles)
               /\ r.test_smiles = test_smiles[r.test_index]
               /\ r.test_pred = test_preds[r.test_index]
               /\ r.in_train = (\E j \in 1..Len(train_smiles) :
                                  train_smiles[j] = test_smiles[r.test_index])
               /\ \A k \in 1..Len(nt) :
                    /\ r.train_smiles[k] = train_smiles[nt[k]]
                    /\ r.train_vec_cosine_dist[k] =
                         test_train_vec_dist[r.test_index][nt[k]]
                    /\ r.train_morgan_jaccard_dist[k] =
                         test_train_morgan_dist[r.test_index][nt[k]]
  /\ pc = "done" => out_file.rows = neighbors

C2_Witness ==
  /\ pc = "done"
  /\ Len(neighbors) >= 2
  /\ neighbors[1].test_pred = neighbors[2].test_pred
  /\ neighbors[1].test_smiles # neighbors[2].test_smiles
  /\ neighbors[1].test_index < neighbors[2].test_index

\* C3: a call with num_neighbors <= 0 never gets as far as a written
\* report.
C3_NonPositiveKRejected ==
  num_neighbors <= 0 => (pc # "done" /\ ~out_file.exists)

\* C4: when the unsupported distance measure is raised, no distance matrix
\* has been computed and no output file exists.
C4_MeasureRejectedFirst ==
  raised = "ValueError: distance measure" =>
    /\ test_train_morgan_dist = <<>>
    /\ test_train_vec_dist = <<>>
    /\ ~out_file.exists

\* C5: for positive num_neighbors every record holds
\* min(num_neighbors, |train|) distinct training indices, and all of them,
\* each once, when num_neighbors >= |train|.
C5_ClampedDistinct ==
  num_neighbors > 0 =>
    \A i \in 1..Len(neighbors) :
      LET r == neighbors[i]
          nt == r.nearest_train
      IN /\ Len(nt) = Min(num_neighbors, Len(train_smiles))
         /\ Len(r.train_smiles) = Min(num_neighbors, Len(train_smiles))
         /\ \A a, b \in 1..Len(nt) : a # b => nt[a] # nt[b]
         /\ \A a \in 1..Len(nt) : nt[a] \in 1..Len(train_smiles)
         /\ num_neighbors >= Len(train_smiles) =>
              \A j \in 1..Len(train_smiles) :
                Cardinality({a \in 1..Len(nt) : nt[a] = j}) = 1

C5_Witness ==
  /\ num_neighbors >= Len(train_smiles)
  /\ Len(train_smiles) >= 2
  /\ \E i \in 1..Len(neighbors) :
       /\ Len(neighbors[i].nearest_train) = Len(train_smiles)
       /\ neighbors[i].nearest_train[1] # 1

\* C6: a call with an empty test set raises nothing.
C6_EmptyQueryCompletes ==
  Len(test_smiles) = 0 => raised = "none"

\* C7 as stated: for positive num_neighbors every record has 5 leading
\* fields and exactly num_neighbors groups of 4, whatever the size of the
\* training set, and all records have the same fields.
C7_FixedSchema ==
  num_neighbors > 0 =>
    \A i \in 1..Len(neighbors) :
      /\ Len(neighbors[i].fieldnames) = 5 + 4 * num_neighbors
      /\ neighbors[i].fieldnames = neighbors[1].fieldnames

\* C7 as amended: for positive num_neighbors every record has the 5 leading
\* fields followed by exactly min(num_neighbors, |train|) groups of 4
\* numbered from 1, all records of a report have the same field list, and
\* the header written is the field list of every row.
C7_SchemaClamped ==
  /\ num_neighbors > 0 =>
       \A i \in 1..Len(neighbors) :
         LET f == neighbors[i].fieldnames
             m == Min(num_neighbors, Len(train_smiles))
         IN /\ Len(f) = 5 + 4 * m
            /\ f[1] = <<"test_smiles", 0>>
            /\ f[2] = <<"in_train", 0>>
            /\ f[3] = <<"test_pred", 0>>
            /\ f[4] = <<"train_avg_vec_cosine_dist", num_neighbors>>
            /\ f[5] = <<"train_avg_morgan_jaccard_dist", num_neighbors>>
            /\ \A g \in 1..m :
                 /\ f[4 * g + 2] = <<"train_smiles", g>>
                 /\ f[4 * g + 3] = <<"train_is_antibiotic", g>>
                 /\ f[4 * g + 4] = <<"train_vec_cosine_dist", g>>
                 /\ f[4 * g + 5] = <<"train_morgan_jaccard_dist", g>>
            /\ f = neighbors[1].fieldnames
  /\ (num_neighbors > 0 /\ pc = "done") =>
       \A i \in 1..Len(out_file.rows) :
         out_file.rows[i].fieldnames = out_file.fieldnames

C7_Witness ==
  /\ pc = "done"
  /\ num_neighbors > Len(train_smiles)
  /\ Len(out_file.rows) >= 2
  /\ Len(out_file.fieldnames) = 5 + 4 * Len(train_smiles)

\* C8: for positive num_neighbors the training molecules of a record are
\* the nearest under the requested measure (no molecule left out is
\* strictly nearer than one taken), and the per-neighbor fields 1, 2, ...
\* carry distances under that measure in non-decreasing order.
C8_NearestInRankOrder ==
  num_neighbors > 0 =>
    \A i \in 1..Len(neighbors) :
      LET r == neighbors[i]
          row == SelectionMatrix[r.test_index]
          taken == Range(r.nearest_train)
          emitted == IF distance_measure = "vec"
                     THEN r.train_vec_cosine_dist
                     ELSE r.train_morgan_jaccard_dist
      IN /\ Len(emitted) = Min(num_neighbors, Len(train_smiles))
         /\ \A j \in taken :
              \A u \in (1..Len(train_smiles)) \ taken : row[j] <= row[u]
         /\ \A k \in 1..(Len(emitted) - 1) : emitted[k] <= emitted[k + 1]
         /\ \A k \in 1..Len(emitted) : emitted[k] = row[r.nearest_train[k]]

C8_Witness ==
  /\ num_neighbors > 0
  /\ \E i \in 1..Len(neighbors) :
       LET r == neighbors[i]
           row == SelectionMatrix[r.test_index]
       IN /\ Len(r.nearest_train) < Len(train_smiles)
          /\ r.nearest_train[1] # 1
          /\ row[r.nearest_train[1]] < row[1]

\* C9: molecules at equal distance under the requested measure are ranked,
\* and taken at the num_neighbors boundary, in ascending training index.
C9_TiesByIndex ==
  num_neighbors > 0 =>
    \A i \in 1..Len(neighbors) :
      LET r == neighbors[i]
          nt == r.nearest_train
          row == SelectionMatrix[r.test_index]
      IN /\ \A a, b \in 1..Len(nt) :
              (a < b /\ row[nt[a]] = row[nt[b]]) => nt[a] < nt[b]
         /\ \A j \in Range(nt) :
              \A u \in (1..Len(train_smiles)) \ Range(nt) :
                row[u] = row[j] => j < u

\* C10: in every record the rank-k smiles, antibiotic flag, vector distance
\* and fingerprint distance all belong to one training index, and each of
\* the two averages is the sum of that measure's distances over the set of
\* training indices of the record divided by the size of that set.
C10_AlignedFieldsAndMeans ==
  \A i \in 1..Len(neighbors) :
    LET r == neighbors[i]
        nt == r.nearest_train
        taken == Range(nt)
    IN /\ Len(r.train_smiles) = Len(nt)
       /\ Len(r.train_is_antibiotic) = Len(nt)
       /\ Len(r.train_vec_cosine_dist) = Len(nt)
       /\ Len(r.train_morgan_jaccard_dist) = Len(nt)
       /\ \A k \in 1..Len(nt) :
            /\ r.train_smiles[k] = train_smiles[nt[k]]
            /\ r.train_is_antibiotic[k] = (train_smiles[nt[k]] \in antibiotics)
            /\ r.train_vec_cosine_dist[k] =
                 test_train_vec_dist[r.test_index][nt[k]]
            /\ r.train_morgan_jaccard_dist[k] =
                 test_train_morgan_dist[r.test_index][nt[k]]
       /\ r.avg_vec_cosine_dist =
            <<SumOver(test_train_vec_dist[r.test_index], taken),
              Cardinality(taken)>>
       /\ r.avg_morgan_jaccard_dist =
            <<SumOver(test_train_morgan_dist[r.test_index], taken),
              Cardinality(taken)>>

C10_Witness ==
  /\ distance_measure = "morgan"
  /\ \E i \in 1..Len(neighbors) :
       LET r == neighbors[i]
       IN /\ Len(r.nearest_train) >= 2
          /\ r.nearest_train[1] # 1
          /\ r.train_vec_cosine_dist[1] > r.train_vec_cosine_dist[2]
          /\ r.train_is_antibiotic[1] # r.train_is_antibiotic[2]

====
